---------------------------- MODULE Spec2Model ----------------------------
(***************************************************************************)
(* Model of the filament-profile resolution engine of                      *)
(* src-tauri/src/lib.rs: locate -> load -> chain -> merge -> finalize,     *)
(* plus the user-profile enumerator.                                       *)
(*                                                                         *)
(* JSON values (serde_json::Value) are tagged records:                     *)
(*   [t |-> "null"], [t |-> "str", s |-> string], [t |-> "arr", a |-> seq], *)
(*   [t |-> "obj", v |-> function from key strings to values].             *)
(* Numbers and booleans behave as strings do in every operation modelled   *)
(* (they are non-objects and not strings only to as_str), so the scalars   *)
(* are strings and null.                                                   *)
(***************************************************************************)
EXTENDS Integers, Sequences, FiniteSets, TLC

VARIABLES
    userDirs,   \* the user/<set>/filament directories, in read_dir order
    sysTree,    \* the directory tree under system/
    pc,         \* position of the running command: idle, resolve, resolved, done
    call,       \* which command runs: none, build, list
    start,      \* build_filament_profile's argument
    cursor,     \* resolve_chain's cursor
    seen,       \* resolve_chain's visited set
    chain,      \* resolve_chain's leaf-first list of (name, document)
    trail,      \* history of (cursor, path) per loop iteration of resolve_chain
    result,     \* what the command returned
    mInto,      \* deep_merge's first operand (pure-function specification)
    mFrom,      \* deep_merge's second operand
    mOut,       \* deep_merge's accumulator after the call
    mpc         \* in / out: whether deep_merge has been applied

vars == <<userDirs, sysTree, pc, call, start, cursor, seen, chain, trail,
          result, mInto, mFrom, mOut, mpc>>

fsVars == <<userDirs, sysTree>>
callVars == <<pc, call, start, cursor, seen, chain, trail, result>>
mergeVars == <<mInto, mFrom, mOut, mpc>>

---------------------------------------------------------------------------
(* serde_json::Value *)

Null == [t |-> "null"]
Str(x) == [t |-> "str", s |-> x]
Arr(q) == [t |-> "arr", a |-> q]
Obj(f) == [t |-> "obj", v |-> f]

EmptyMap == [k \in {} |-> Null]
EmptyObj == Obj(EmptyMap)

IsObj(x) == x.t = "obj"
IsStr(x) == x.t = "str"

\* Value::get(key): Some(value) only on an object that holds the key.
Has(x, k) == IsObj(x) /\ k \in DOMAIN x.v

\* obj.get(key).and_then(Value::as_str) is Some
HasStr(x, k) == Has(x, k) /\ IsStr(x.v[k])

\* every object over a subset of keys with values in vals
ObjsOver(keys, vals) ==
    { Obj(f) : f \in UNION { [S -> vals] : S \in SUBSET keys } }

---------------------------------------------------------------------------
(* deep_merge *)

\* a.entry(k).or_insert(Value::Null): the map with the slot present
or_insert(a, k) ==
    IF k \in DOMAIN a THEN a ELSE [x \in DOMAIN a \cup {k} |-> IF x = k THEN Null ELSE a[x]]

RECURSIVE deep_merge(_, _)
RECURSIVE merge_entries(_, _, _)

\* for (k, v) in b { deep_merge(a.entry(k).or_insert(Null), v) }
merge_entries(a, b, todo) ==
    IF todo = {} THEN a
    ELSE LET k == CHOOSE x \in todo : TRUE
             a1 == or_insert(a, k)
             a2 == [a1 EXCEPT ![k] = deep_merge(a1[k], b[k])]
         IN merge_entries(a2, b, todo \ {k})

\* plausible slip: the non-object branch forgets to assign
deep_merge_keeps_into(into, from) ==
    IF IsObj(into) /\ IsObj(from)
    THEN Obj(merge_entries(into.v, from.v, DOMAIN from.v))
    ELSE into

\* plausible slip: insert instead of or_insert, the existing slot is reset
deep_merge_resets_slot(into, from) ==
    IF IsObj(into) /\ IsObj(from)
    THEN Obj([k \in DOMAIN into.v \cup DOMAIN from.v |->
                IF k \in DOMAIN from.v THEN deep_merge(Null, from.v[k])
                ELSE into.v[k]])
    ELSE from

deep_merge(into, from) ==
    IF IsObj(into) /\ IsObj(from)
    THEN Obj(merge_entries(into.v, from.v, DOMAIN from.v))
    ELSE from

---------------------------------------------------------------------------
(* The profile store: directories hold entries by file name.               *)
(*   kind "json":    a regular file whose content parses to doc            *)
(*   kind "garbage": a regular file that cannot be read or parsed          *)
(*   kind "dir":     a directory of that name (not a regular file)         *)

JsonFile(d) == [kind |-> "json", doc |-> d]
Garbage == [kind |-> "garbage", doc |-> Null]
Directory == [kind |-> "dir", doc |-> Null]

NoPath == [tier |-> "none", ix |-> <<>>, file |-> ""]
SysRoot == [tier |-> "system", ix |-> <<>>]

\* str::ends_with
ends_with(s, suf) ==
    Len(s) >= Len(suf) /\ SubSeq(s, Len(s) - Len(suf) + 1, Len(s)) = suf

\* try_file / search_recursive: appends the extension unless already present
file_name(name) ==
    IF ends_with(name, ".json") THEN name ELSE name \o ".json"

\* the directory node of the system tree at an index path
RECURSIVE NodeAt(_, _)
NodeAt(tree, ix) ==
    IF ix = <<>> THEN tree ELSE NodeAt(tree.subdirs[Head(ix)], Tail(ix))

\* the entries of the directory at a location
Files(loc) ==
    IF loc.tier = "user" THEN userDirs[loc.ix[1]] ELSE NodeAt(sysTree, loc.ix).files

\* Path::is_file of dir.join(fname)
is_file(loc, fname) ==
    /\ fname \in DOMAIN Files(loc)
    /\ Files(loc)[fname].kind \in {"json", "garbage"}

\* user_filament_dirs(): one location per user filament directory
user_filament_dirs == [i \in 1..Len(userDirs) |-> [tier |-> "user", ix |-> <<i>>]]

try_file(loc, name) ==
    LET fname == file_name(name)
    IN IF is_file(loc, fname)
       THEN [tier |-> loc.tier, ix |-> loc.ix, file |-> fname]
       ELSE NoPath

RECURSIVE search_recursive(_, _)
RECURSIVE walk_subdirs(_, _, _)

\* the loop over read_dir(dir) of search_recursive, from the i-th subdirectory
walk_subdirs(loc, name, i) ==
    IF i > Len(NodeAt(sysTree, loc.ix).subdirs) THEN NoPath
    ELSE LET found == search_recursive([tier |-> loc.tier, ix |-> Append(loc.ix, i)], name)
         IN IF found # NoPath THEN found ELSE walk_subdirs(loc, name, i + 1)

search_recursive(loc, name) ==
    LET fname == file_name(name)
    IN IF is_file(loc, fname)
       THEN [tier |-> loc.tier, ix |-> loc.ix, file |-> fname]
       ELSE walk_subdirs(loc, name, 1)

\* the loop over user_filament_dirs() of find_profile_file, from the i-th
RECURSIVE first_user_match(_, _)
first_user_match(name, i) ==
    IF i > Len(user_filament_dirs) THEN NoPath
    ELSE LET p == try_file(user_filament_dirs[i], name)
         IN IF p # NoPath THEN p ELSE first_user_match(name, i + 1)

\* plausible slip: the system tree is searched before the user directories
find_profile_file_system_first(name) ==
    LET s == search_recursive(SysRoot, name)
    IN IF s # NoPath THEN s ELSE first_user_match(name, 1)

find_profile_file(name) ==
    LET u == first_user_match(name, 1)
    IN IF u # NoPath THEN u ELSE search_recursive(SysRoot, name)

\* load_json: the parsed document, or an error
load_json(path) ==
    LET e == Files([tier |-> path.tier, ix |-> path.ix])[path.file]
    IN IF e.kind = "json" THEN [ok |-> TRUE, val |-> e.doc]
       ELSE [ok |-> FALSE, val |-> Null]

---------------------------------------------------------------------------
(* What a command returns *)

NoResult == [kind |-> "none", what |-> "", key |-> "", doc |-> Null, names |-> <<>>]
Err(what, key) == [kind |-> "err", what |-> what, key |-> key, doc |-> Null, names |-> <<>>]
OkDoc(d) == [kind |-> "ok", what |-> "doc", key |-> "", doc |-> d, names |-> <<>>]
OkNames(ns) == [kind |-> "ok", what |-> "names", key |-> "", doc |-> Null, names |-> ns]

---------------------------------------------------------------------------
(* resolve_chain *)

\* plausible slip: the visited set is filled but its answer is ignored
seen_insert_unchecked == TRUE

\* seen.insert(cursor.clone()): true when the cursor was not yet visited
seen_insert == cursor \notin seen

\* Err(format!("cycle detected at '{}'", cursor))
CycleError == Err("cycle", cursor)

\* plausible slip: the error names the start name, not the cursor
NotFoundError_names_start == Err("notfound", start)

\* ok_or_else(|| format!("profile not found for '{}'", cursor))
NotFoundError == Err("notfound", cursor)

\* plausible slip: the reversal is forgotten, the chain stays leaf-first
reverse_forgotten(s) == s

\* chain.reverse()
reverse(s) == [i \in 1..Len(s) |-> s[Len(s) + 1 - i]]

\* obj.get("name").and_then(Value::as_str).unwrap_or(&cursor)
chain_name(obj, key) == IF HasStr(obj, "name") THEN obj.v["name"].s ELSE key

---------------------------------------------------------------------------
(* build_final *)

map_remove(m, k) == [x \in DOMAIN m \ {k} |-> m[x]]
map_insert(m, k, val) == [x \in DOMAIN m \cup {k} |-> IF x = k THEN val ELSE m[x]]

RECURSIVE fold_chain(_, _, _)

\* plausible slip: the operands of deep_merge are swapped, the ancestor wins
fold_chain_operands_swapped(acc, ch, i) ==
    IF i > Len(ch) THEN acc ELSE fold_chain(deep_merge(ch[i].obj, acc), ch, i + 1)

\* for (_, obj) in chain { deep_merge(&mut acc, obj) }, from the i-th entry
fold_chain(acc, ch, i) ==
    IF i > Len(ch) THEN acc ELSE fold_chain(deep_merge(acc, ch[i].obj), ch, i + 1)

\* chain.last().and_then(|(_, o)| o.get("from").and_then(as_str)).unwrap_or("User")
from_of(ch) ==
    IF Len(ch) > 0 /\ HasStr(ch[Len(ch)].obj, "from")
    THEN ch[Len(ch)].obj.v["from"].s
    ELSE "User"

build_final(ch, final_name) ==
    LET acc == fold_chain(EmptyObj, ch, 1)
    IN IF IsObj(acc)
       THEN LET m1 == map_remove(acc.v, "inherits")
                m2 == map_insert(m1, "name", Str(final_name))
                m3 == map_insert(m2, "from", Str(from_of(ch)))
                m4 == map_insert(m3, "instantiation", Str("true"))
                m5 == IF "type" \notin DOMAIN m4
                      THEN map_insert(m4, "type", Str("filament"))
                      ELSE m4
            IN Obj(m5)
       ELSE acc

\* build_filament_profile: the leaf's own name, else the name resolve_chain gave
final_name_of(ch) ==
    IF Len(ch) > 0
    THEN chain_name(ch[Len(ch)].obj, ch[Len(ch)].name)
    ELSE start

---------------------------------------------------------------------------
(* list_user_filament_profiles *)

\* position of the last "." of a file name, 0 when there is none
last_dot(s) ==
    LET D == { i \in 1..Len(s) : SubSeq(s, i, i) = "." }
    IN IF D = {} THEN 0 ELSE CHOOSE i \in D : \A j \in D : j <= i

\* Path::extension: what follows the last dot ("" stands for None)
extension(fname) ==
    IF last_dot(fname) <= 1 THEN "" ELSE SubSeq(fname, last_dot(fname) + 1, Len(fname))

\* Path::file_stem: what precedes the last dot
file_stem(fname) ==
    IF last_dot(fname) <= 1 THEN fname ELSE SubSeq(fname, 1, last_dot(fname) - 1)

\* byte order of the characters that occur in names
Alphabet == "-.0123456789ABCDEFGHIJKLMNOPQRSTUVWXYZ_abcdefghijklmnopqrstuvwxyz"
char_rank(c) == CHOOSE i \in 1..Len(Alphabet) : SubSeq(Alphabet, i, i) = c

\* String's Ord, which BTreeSet<String> iterates by
RECURSIVE str_less(_, _)
str_less(x, y) ==
    IF x = "" THEN y # ""
    ELSE IF y = "" THEN FALSE
    ELSE LET cx == char_rank(SubSeq(x, 1, 1))
             cy == char_rank(SubSeq(y, 1, 1))
         IN IF cx # cy THEN cx < cy
            ELSE str_less(SubSeq(x, 2, Len(x)), SubSeq(y, 2, Len(y)))

\* names.into_iter().collect(): the set in ascending order
RECURSIVE into_sorted(_)
into_sorted(S) ==
    IF S = {} THEN <<>>
    ELSE LET least == CHOOSE x \in S : \A y \in S \ {x} : str_less(x, y)
         IN <<least>> \o into_sorted(S \ {least})

\* what the original description says: a file that does not load is skipped
entry_names_skip_unloadable(loc, fname) ==
    LET ld == load_json([tier |-> loc.tier, ix |-> loc.ix, file |-> fname])
    IN IF ~(is_file(loc, fname) /\ extension(fname) = "json") THEN {}
       ELSE IF ~ld.ok THEN {}
       ELSE IF HasStr(ld.val, "name") THEN { ld.val.v["name"].s }
       ELSE { file_stem(fname) }

\* the names one directory entry adds: the document's "name", else the stem
entry_names(loc, fname) ==
    LET ld == load_json([tier |-> loc.tier, ix |-> loc.ix, file |-> fname])
    IN IF ~(is_file(loc, fname) /\ extension(fname) = "json") THEN {}
       ELSE IF ld.ok /\ HasStr(ld.val, "name") THEN { ld.val.v["name"].s }
       ELSE { file_stem(fname) }

\* the BTreeSet after the scan of every user filament directory
listed_names ==
    UNION { UNION { entry_names(user_filament_dirs[i], f) : f \in DOMAIN userDirs[i] } :
              i \in 1..Len(userDirs) }

---------------------------------------------------------------------------
(* Inputs of the pure-function specification of deep_merge *)

MergeAtoms == { Null, Str("s"), Str("t"), Arr(<<Str("s")>>), Arr(<<Str("t"), Null>>) }
MergeInner == MergeAtoms \cup ObjsOver({"k"}, MergeAtoms)
MergeValues == MergeInner \cup ObjsOver({"k", "m"}, { Null, Str("s"), Arr(<<Str("s")>>) } \cup ObjsOver({"k"}, { Str("s"), Str("t") }))

Idle ==
    /\ pc = "idle" /\ call = "none" /\ start = "" /\ cursor = ""
    /\ seen = {} /\ chain = <<>> /\ trail = <<>>
    /\ result = NoResult

InitMerge ==
    /\ mInto \in MergeValues
    /\ mFrom \in MergeValues
    /\ mOut = Null
    /\ mpc = "in"
    /\ userDirs = <<>>
    /\ sysTree = [files |-> EmptyMap, subdirs |-> <<>>]
    /\ Idle

DeepMerge ==
    /\ mpc = "in"
    /\ mOut' = deep_merge(mInto, mFrom)
    /\ mpc' = "out"
    /\ UNCHANGED <<mInto, mFrom, fsVars, callVars>>

NextMerge == DeepMerge

SpecMerge == InitMerge /\ [][NextMerge]_vars

---------------------------------------------------------------------------
(* The stores the commands are run on *)

MaxUserDirs == 2      \* user filament directories
MaxSysSubdirs == 2    \* subdirectories of the system root
MaxFields == 3        \* optional fields spread over the documents of a chain

FileNames == { "a.json", "b.json", "c.json" }
StartKeys == { "a", "a.json", "b", "c" }

EmptyTree == [files |-> EmptyMap, subdirs |-> <<>>]

SeqsUpTo(S, n) == UNION { [1..m -> S] : m \in 0..n }

\* every directory holding, for each name of names, nothing or one of entries
DirsOver(names, entries) == UNION { [S -> entries] : S \in SUBSET names }

\* (1) chains: one user directory; every file is absent, unreadable, a
\* non-object document, or an object whose inherits is absent, a non-string,
\* or one of the lookup keys.
ChainDocs ==
    { EmptyObj, Arr(<<Str("x")>>), Obj([k \in {"inherits"} |-> Null]) }
        \cup { Obj([k \in {"inherits"} |-> Str(p)]) : p \in StartKeys }

ChainEntries == { Garbage } \cup { JsonFile(d) : d \in ChainDocs }

ChainStores ==
    { [user |-> << [f \in DOMAIN d \cup {"notes.txt"} |->
                      IF f = "notes.txt" THEN Garbage ELSE d[f]] >>,
       system |-> EmptyTree] : d \in DirsOver(FileNames, ChainEntries) }

\* (2) tiers: up to MaxUserDirs user directories and a system root with up to
\* MaxSysSubdirs subdirectories; each holds a.json as a regular file, as a
\* directory, or not at all.
TierDoc(tier) == Obj([k \in {"from"} |-> Str(tier)])

TierDirs(tier) == DirsOver({"a.json"}, { JsonFile(TierDoc(tier)), Directory })

TierStores ==
    { [user |-> us,
       system |-> [files |-> fs,
                   subdirs |-> [i \in 1..Len(subs) |-> [files |-> subs[i], subdirs |-> <<>>]]]] :
        us \in SeqsUpTo(TierDirs("user"), MaxUserDirs),
        fs \in TierDirs("system"),
        subs \in SeqsUpTo(TierDirs("system"), MaxSysSubdirs) }

\* (3) fields: a.json in the user directory inherits b (system root), which
\* inherits c (two levels down the system tree); at most MaxFields optional
\* fields are spread over the three documents.
FieldOptions == { "name", "from", "type", "k", "kobj" }
FieldSlots == { "a", "b", "c" } \X FieldOptions

FieldSets ==
    { S \in SUBSET FieldSlots :
        /\ Cardinality(S) <= MaxFields
        /\ \A f \in { "a", "b", "c" } : ~(<<f, "k">> \in S /\ <<f, "kobj">> \in S) }

\* the document of profile f: its inherits and the optional fields S gives it
FieldDoc(f, parent, S) ==
    LET keys == { o \in { "name", "from", "type" } : <<f, o>> \in S }
                  \cup (IF <<f, "k">> \in S \/ <<f, "kobj">> \in S THEN {"k"} ELSE {})
                  \cup (IF parent # "" THEN {"inherits"} ELSE {})
    IN Obj([x \in keys |->
            IF x = "inherits" THEN Str(parent)
            ELSE IF x = "k" /\ <<f, "kobj">> \in S
                 THEN Obj([y \in {"p" \o f} |-> Str("v" \o f)])
            ELSE Str(x \o "-" \o f)])

FieldStores ==
    { [user |-> << [n \in {"a.json"} |-> JsonFile(FieldDoc("a", "b", S))] >>,
       system |->
          [files |-> [n \in {"b.json"} |-> JsonFile(FieldDoc("b", "c", S))],
           subdirs |-> << [files |-> EmptyMap,
                           subdirs |-> << [files |-> [n \in {"c.json"} |->
                                                        JsonFile(FieldDoc("c", "", S))],
                                           subdirs |-> <<>>] >>] >>]] : S \in FieldSets }

Stores == ChainStores \cup TierStores \cup FieldStores

MergeIdle == mInto = Null /\ mFrom = Null /\ mOut = Null /\ mpc = "off"

Init ==
    /\ \E st \in Stores : userDirs = st.user /\ sysTree = st.system
    /\ Idle
    /\ MergeIdle

---------------------------------------------------------------------------
(* The commands *)

\* build_filament_profile(start) is invoked: resolve_chain starts
Build(s) ==
    /\ pc = "idle"
    /\ pc' = "resolve"
    /\ call' = "build"
    /\ start' = s
    /\ cursor' = s
    /\ seen' = {}
    /\ chain' = <<>>
    /\ trail' = <<>>
    /\ result' = NoResult
    /\ UNCHANGED <<fsVars, mergeVars>>

\* one iteration of resolve_chain's loop; on break, the reversal and return
ResolveLoop ==
    /\ pc = "resolve"
    /\ IF ~seen_insert
       THEN /\ pc' = "done"
            /\ result' = CycleError
            /\ UNCHANGED <<cursor, seen, chain, trail>>
       ELSE LET path == find_profile_file(cursor)
                ld == load_json(path)
                obj == ld.val
                entry == [name |-> chain_name(obj, cursor), obj |-> obj]
            IN /\ seen' = seen \cup {cursor}
               /\ trail' = Append(trail, [key |-> cursor, path |-> path])
               /\ IF path = NoPath
                  THEN /\ pc' = "done"
                       /\ result' = NotFoundError
                       /\ UNCHANGED <<cursor, chain>>
                  ELSE IF ~ld.ok
                  THEN /\ pc' = "done"
                       /\ result' = Err("load", path.file)
                       /\ UNCHANGED <<cursor, chain>>
                  ELSE IF HasStr(obj, "inherits")
                  THEN /\ chain' = Append(chain, entry)
                       /\ cursor' = obj.v["inherits"].s
                       /\ UNCHANGED <<pc, result>>
                  ELSE /\ chain' = reverse(Append(chain, entry))
                       /\ pc' = "resolved"
                       /\ UNCHANGED <<cursor, result>>
    /\ UNCHANGED <<call, start, fsVars, mergeVars>>

\* build_filament_profile after resolve_chain returned Ok(chain)
Finish ==
    /\ pc = "resolved"
    /\ pc' = "done"
    /\ result' = OkDoc(build_final(chain, final_name_of(chain)))
    /\ UNCHANGED <<call, start, cursor, seen, chain, trail, fsVars, mergeVars>>

\* list_user_filament_profiles
List ==
    /\ pc = "idle"
    /\ pc' = "done"
    /\ call' = "list"
    /\ result' = OkNames(into_sorted(listed_names))
    /\ UNCHANGED <<start, cursor, seen, chain, trail, fsVars, mergeVars>>

\* the command has returned to its caller; its locals are gone
Return ==
    /\ pc = "done"
    /\ pc' = "idle" /\ call' = "none" /\ start' = "" /\ cursor' = ""
    /\ seen' = {} /\ chain' = <<>> /\ trail' = <<>>
    /\ result' = NoResult
    /\ UNCHANGED <<fsVars, mergeVars>>

Next ==
    \/ \E s \in StartKeys : Build(s)
    \/ ResolveLoop
    \/ Finish
    \/ List
    \/ Return

Spec == Init /\ [][Next]_vars

\* The stores in which a walk can come back on itself are the chain stores.
InitChains ==
    /\ \E st \in ChainStores : userDirs = st.user /\ sysTree = st.system
    /\ Idle
    /\ MergeIdle

\* a command that was invoked runs to its return: the call is synchronous
FairSpec ==
    InitChains /\ [][Next]_vars /\ WF_vars(ResolveLoop) /\ WF_vars(Finish)

---------------------------------------------------------------------------
(* Claims about deep_merge, checked under SpecMerge *)

\* The merge rule of the documentation, stated key by key and not as a fold.
RECURSIVE RuleMerge(_, _)
RuleMerge(a, b) ==
    IF IsObj(a) /\ IsObj(b)
    THEN Obj([k \in DOMAIN a.v \cup DOMAIN b.v |->
                IF k \notin DOMAIN b.v THEN a.v[k]
                ELSE IF k \notin DOMAIN a.v THEN b.v[k]
                ELSE RuleMerge(a.v[k], b.v[k])])
    ELSE b

\* C5 as stated: the empty document is a two-sided identity of deep_merge for
\* EVERY document D: deep_merge(D, {}) leaves D unchanged and deep_merge({}, D)
\* leaves a copy of D.
C5_Original ==
    mpc = "out" =>
        /\ (mFrom = EmptyObj => mOut = mInto)
        /\ (mInto = EmptyObj => mOut = mFrom)

\* C5 amended: for every OBJECT document D, deep_merge(D, {}) leaves D
\* unchanged (a non-object D is replaced by {}), and for every document D,
\* deep_merge({}, D) leaves the accumulator equal to D.
C5_EmptyIdentity ==
    mpc = "out" =>
        /\ (mFrom = EmptyObj /\ IsObj(mInto) => mOut = mInto)
        /\ (mFrom = EmptyObj /\ ~IsObj(mInto) => mOut = EmptyObj)
        /\ (mInto = EmptyObj => mOut = mFrom)

\* a nested object document has been merged with the empty document
C5_Witness ==
    /\ mpc = "out" /\ mFrom = EmptyObj
    /\ Has(mInto, "k") /\ IsObj(mInto.v["k"]) /\ Has(mInto, "m")
    /\ mOut = mInto

\* C10: deep_merge(into, from) follows the rule at every nesting level: two
\* objects give the union of the keys, a key only in into keeps its value, a
\* key only in from ends with exactly from's value (no null placeholder
\* remains), a shared key holds the merge of the two values by the same rule;
\* when either operand is not an object the result is exactly from's value.
C10_MergeRule ==
    mpc = "out" =>
        IF IsObj(mInto) /\ IsObj(mFrom)
        THEN /\ IsObj(mOut)
             /\ DOMAIN mOut.v = DOMAIN mInto.v \cup DOMAIN mFrom.v
             /\ \A k \in DOMAIN mInto.v \ DOMAIN mFrom.v : mOut.v[k] = mInto.v[k]
             /\ \A k \in DOMAIN mFrom.v \ DOMAIN mInto.v : mOut.v[k] = mFrom.v[k]
             /\ \A k \in DOMAIN mFrom.v \cap DOMAIN mInto.v :
                    mOut.v[k] = RuleMerge(mInto.v[k], mFrom.v[k])
        ELSE mOut = mFrom

\* two objects that share a key holding objects, with a key only in from at
\* the nested level and a key only in into at the top level, have been merged
C10_Witness ==
    /\ mpc = "out"
    /\ Has(mInto, "k") /\ Has(mFrom, "k") /\ Has(mInto, "m") /\ ~Has(mFrom, "m")
    /\ IsObj(mInto.v["k"]) /\ ~Has(mInto.v["k"], "k") /\ Has(mFrom.v["k"], "k")
    /\ mOut.v["k"] = mFrom.v["k"]

---------------------------------------------------------------------------
(* What the store holds, stated by quantification and not by search *)

Range(q) == { q[i] : i \in DOMAIN q }

RegularAt(entries, f) ==
    f \in DOMAIN entries /\ entries[f].kind \in {"json", "garbage"}

RECURSIVE TreeNodes(_)
TreeNodes(t) == {t} \cup UNION { TreeNodes(t.subdirs[i]) : i \in DOMAIN t.subdirs }

UserHolds(k) == \E i \in DOMAIN userDirs : RegularAt(userDirs[i], file_name(k))
SysHolds(k) == \E n \in TreeNodes(sysTree) : RegularAt(n.files, file_name(k))
Exists(k) == UserHolds(k) \/ SysHolds(k)

\* the lookup key a profile inherits from, "" when the walk ends at it
Parent(k) ==
    IF k = "" \/ ~Exists(k) THEN ""
    ELSE LET ld == load_json(find_profile_file(k))
         IN IF ld.ok /\ HasStr(ld.val, "inherits") THEN ld.val.v["inherits"].s ELSE ""

RECURSIVE Ancestor(_, _)
Ancestor(k, n) == IF n = 0 THEN k ELSE Parent(Ancestor(k, n - 1))

WalkBound == Cardinality(StartKeys) + 1

OnCycle(k) == k # "" /\ \E n \in 1..WalkBound : Ancestor(k, n) = k
Revisits(s) == \E n \in 0..WalkBound : OnCycle(Ancestor(s, n))

BuiltOk == pc = "done" /\ call = "build" /\ result.kind = "ok"

---------------------------------------------------------------------------
(* Claims about the commands *)

\* C1: whenever the walk from the start name comes back to a lookup key it
\* has already visited, resolve_chain stops at once with the cycle error
\* naming that key, which lies on the cycle; a build whose walk revisits a key
\* ends in that error and returns no chain; and the loop always terminates.
C1_CycleDetected ==
    /\ [][(pc = "resolve" /\ cursor \in seen) =>
            (pc' = "done" /\ result' = Err("cycle", cursor) /\ OnCycle(cursor))]_vars
    /\ []((pc \in {"resolved", "done"} /\ call = "build" /\ Revisits(start)) =>
            (pc = "done" /\ result.kind = "err" /\ result.what = "cycle"
               /\ OnCycle(result.key)))
    /\ ((pc = "resolve") ~> (pc = "done"))

\* a cycle that does not pass through the start name has been detected
C1_Witness ==
    /\ pc = "done" /\ result.what = "cycle"
    /\ result.key # start /\ Len(chain) = 3

\* C2: a lookup key the walk reaches (the start name or an inherits value)
\* whose file no tier holds ends the build with the not-found error naming
\* exactly that key.
C2_NotFound ==
    \A i \in DOMAIN trail :
        ~Exists(trail[i].key) =>
            /\ i = Len(trail)
            /\ pc = "done"
            /\ result = Err("notfound", trail[i].key)

\* an inherits value naming a missing profile has ended a build
C2_Witness ==
    /\ pc = "done" /\ result.what = "notfound"
    /\ Len(trail) = 3 /\ result.key # start /\ ~Exists(result.key)

Leaf == chain[3].obj
Mid == chain[2].obj
Root == chain[1].obj

ChainKeys == UNION { DOMAIN d.v : d \in { x \in {Leaf, Mid, Root} : IsObj(x) } }
IsScalar(x) == x.t \in {"str", "null"}
Nearest(k) ==
    IF Has(Leaf, k) THEN Leaf.v[k] ELSE IF Has(Mid, k) THEN Mid.v[k] ELSE Root.v[k]

\* C3 as stated: for a chain A -> B -> C, EVERY key that A, B or C defines
\* with a scalar value holds, in the built document, the value of the profile
\* nearest to the leaf that defines it.
C3_Original ==
    (BuiltOk /\ Len(chain) = 3) =>
        \A k \in ChainKeys :
            (\E d \in {Leaf, Mid, Root} : Has(d, k) /\ IsScalar(d.v[k])) =>
                (Has(result.doc, k) /\ result.doc.v[k] = Nearest(k))

StampedKeys == { "inherits", "name", "from", "instantiation" }

\* C3 amended: for a chain A -> B -> C, every key other than inherits, name,
\* from and instantiation whose value in the nearest-to-leaf profile defining
\* it is a scalar holds exactly that value in the built document.
C3_NearestWins ==
    (BuiltOk /\ Len(chain) = 3) =>
        \A k \in ChainKeys \ StampedKeys :
            IsScalar(Nearest(k)) =>
                (Has(result.doc, k) /\ result.doc.v[k] = Nearest(k))

\* a key the leaf does not set, set by both ancestors, came from the nearer one
C3_Witness ==
    /\ BuiltOk /\ Len(chain) = 3
    /\ ~Has(Leaf, "k") /\ HasStr(Mid, "k") /\ HasStr(Root, "k")
    /\ Mid.v["k"] # Root.v["k"]
    /\ result.doc.v["k"] = Mid.v["k"]

Stamps == { "name", "from", "type", "instantiation" }
KeysOf(d) == IF IsObj(d) THEN DOMAIN d.v ELSE {}

\* C4: a profile whose document has no inherits field builds to that file's
\* content plus the stamps: inherits absent, name, from, type, instantiation
\* set, every other field of the file kept, no other field added.
C4_Original ==
    (BuiltOk /\ Len(chain) = 1 /\ ~Has(chain[1].obj, "inherits")) =>
        LET d == chain[1].obj
            r == result.doc
        IN /\ IsObj(r)
           /\ "inherits" \notin DOMAIN r.v
           /\ DOMAIN r.v = KeysOf(d) \cup Stamps
           /\ r.v["instantiation"] = Str("true")
           /\ \A k \in KeysOf(d) \ Stamps : r.v[k] = d.v[k]

\* C6 as stated: a .json file of a user directory that cannot be read or
\* parsed contributes no name; the list holds the names of the other files.
UserJsonFiles ==
    { e \in UNION { {i} \X DOMAIN userDirs[i] : i \in DOMAIN userDirs } :
        RegularAt(userDirs[e[1]], e[2]) /\ ends_with(e[2], ".json") }
EntryOf(e) == userDirs[e[1]][e[2]]
StemOf(e) == SubSeq(e[2], 1, Len(e[2]) - 5)
LoadedName(e) ==
    IF HasStr(EntryOf(e).doc, "name") THEN EntryOf(e).doc.v["name"].s ELSE StemOf(e)
NamesOfLoadable == { LoadedName(e) : e \in { x \in UserJsonFiles : EntryOf(x).kind = "json" } }
StemsOfUnloadable == { StemOf(e) : e \in { x \in UserJsonFiles : EntryOf(x).kind = "garbage" } }

Located(k, p) ==
    /\ UserHolds(k) =>
          /\ p.tier = "user"
          /\ RegularAt(userDirs[p.ix[1]], p.file)
          /\ p.file = file_name(k)
    /\ p.tier = "system" =>
          /\ ~UserHolds(k)
          /\ RegularAt(NodeAt(sysTree, p.ix).files, p.file)
          /\ p.file = file_name(k)
    /\ (~UserHolds(k) /\ SysHolds(k)) => p.tier = "system"
    /\ p = NoPath <=> ~Exists(k)

\* C7: for every lookup key, find_profile_file answers a regular file of a
\* user filament directory whenever one holds the file, whatever the number
\* of user directories and whatever the system tree holds; a system path only
\* when no user directory holds it; not_found only when no tier holds it.
C7_UserFirst ==
    /\ \A k \in StartKeys : Located(k, find_profile_file(k))
    /\ \A i \in DOMAIN trail : Located(trail[i].key, trail[i].path)

\* a build read the file from the second user directory although the system
\* root and a system subdirectory hold a file of the same name
C7_Witness ==
    /\ Len(trail) = 1 /\ Len(userDirs) = 2
    /\ trail[1].path.tier = "user" /\ trail[1].path.ix = <<2>>
    /\ RegularAt(sysTree.files, trail[1].path.file)
    /\ \E i \in DOMAIN sysTree.subdirs : RegularAt(sysTree.subdirs[i].files, trail[1].path.file)

\* C8: in every chain resolve_chain returns, the lookup keys are pairwise
\* distinct and so are the files loaded (also for keys that differ only by
\* the .json suffix); entry i is the document loaded for the i-th key from
\* the end; the last entry is the start name's document and the first entry
\* has no string inherits.
C8_ChainDistinct ==
    (pc = "resolved" \/ BuiltOk) =>
        /\ Len(chain) = Len(trail) /\ Len(chain) >= 1
        /\ \A i, j \in DOMAIN trail :
              i # j => (trail[i].key # trail[j].key /\ trail[i].path # trail[j].path)
        /\ \A i \in DOMAIN chain :
              chain[i].obj = load_json(trail[Len(trail) + 1 - i].path).val
        /\ trail[1].key = start
        /\ chain[Len(chain)].obj = load_json(find_profile_file(start)).val
        /\ ~HasStr(chain[1].obj, "inherits")

\* a three-entry chain was returned for a start name given with its suffix
C8_Witness ==
    /\ pc = "resolved" /\ start = "a.json" /\ Len(chain) = 3
    /\ HasStr(chain[3].obj, "inherits")

RECURSIVE RuleFold(_, _, _)
RuleFold(acc, ch, i) ==
    IF i > Len(ch) THEN acc ELSE RuleFold(RuleMerge(acc, ch[i].obj), ch, i + 1)

\* C9: every document a successful build returns is finalized: no inherits;
\* instantiation "true"; name the leaf's own string name, else the start
\* key; from the leaf's own string from, else "User"; type the merged type
\* when a chain member defines it, else "filament".
C9_Original ==
    BuiltOk =>
        LET r == result.doc
            leaf == chain[Len(chain)].obj
            merged == RuleFold(EmptyObj, chain, 1)
        IN /\ IsObj(r)
           /\ "inherits" \notin DOMAIN r.v
           /\ { "name", "from", "type", "instantiation" } \subseteq DOMAIN r.v
           /\ r.v["instantiation"] = Str("true")
           /\ r.v["name"] = (IF HasStr(leaf, "name") THEN leaf.v["name"] ELSE Str(start))
           /\ r.v["from"] = (IF HasStr(leaf, "from") THEN leaf.v["from"] ELSE Str("User"))
           /\ r.v["type"] = (IF \E i \in DOMAIN chain : Has(chain[i].obj, "type")
                             THEN merged.v["type"] ELSE Str("filament"))

=============================================================================
